---------------------------- MODULE Spec2Model ----------------------------
(***************************************************************************)
(* A model of the hand-rolled HTTP/1.1 server of src/server.py and of its  *)
(* rate provider client src/oxr_client.py.                                 *)
(*                                                                         *)
(* Byte strings and text are TLA+ strings, handled character by character  *)
(* (SubSeq(s, i, i) is the i-th character).  The server is one sequential  *)
(* process: pc is its position, and each action is one function of the     *)
(* source together with the except clauses of serve_client that its        *)
(* exceptions reach.  What the peer sends, when the peer resets, what the  *)
(* rate provider answers and whether a write reaches the peer are chosen   *)
(* by the environment inside the action that reads, calls or writes.       *)
(***************************************************************************)
EXTENDS Integers, Sequences, FiniteSets, TLC

VARIABLES
    pc,         \* position of the server process
    nconn,      \* number of connections accepted so far
    conn,       \* serve_client's local conn: the connection's number, 0 for None
    sock,       \* the socket accept returned last: "none", "open", "closed"
    rfile,      \* the read stream made on it: "none", "open", "closed"
    raw,        \* parse_request_line's raw: what the first readline returned
    words,      \* parse_request_line's words: the request line split
    hlines,     \* the non-empty lines the readline calls of parse_headers returned
    headers,    \* parse_request's headers (the parsed Message) once read
    req,        \* serve_client's local req: None while unbound
    amount,     \* handle_request's amount once converted: what the handler is called with
    res,        \* handle_get_convert's res: what get_latest returned
    resp,       \* the Response last handed to send_response
    exc,        \* the exception last raised in serve_client
    out,        \* chunks that reached the peer of the connection being served
    sent,       \* number of responses send_response started on this connection
    reads,      \* readline calls made on this connection's read stream
    calls,      \* get_latest calls made while serving this connection
    outcome     \* how serve_client ended: "none", "returned" or the exception type

vars == <<pc, nconn, conn, sock, rfile, raw, words, hlines, headers, req, amount, res, resp,
          exc, out, sent, reads, calls, outcome>>

-----------------------------------------------------------------------------
(* Bounds of the model *)

\* connections the accept loop takes before the model stops accepting
MaxConns == 2
\* header lines of a header block, apart from the padded blocks
MaxHdr == 2
\* chunks of a response that may reach the peer before its write fails
MaxPartial == 1

-----------------------------------------------------------------------------
(* Program constants and configuration *)

MAX_LINE == 64 * 1024
MAX_HEADERS == 100
\* settings.NAME and settings.PORT, as HTTPServer.__init__ keeps them
server_name == "example.org"
port == "8000"

-----------------------------------------------------------------------------
(* Python values *)

None == [some |-> FALSE]
Some(v) == [some |-> TRUE, val |-> v]

PyStr(s) == [t |-> "str", v |-> s]
PyBytes(s) == [t |-> "bytes", v |-> s]
PyInt(n) == [t |-> "int", v |-> n]

\* how an f-string renders a value: str as is, int in decimal, bytes as its repr
Format(x) ==
    CASE x.t = "str" -> x.v
      [] x.t = "int" -> ToString(x.v)
      [] x.t = "bytes" -> "b'" \o x.v \o "'"

Char(s, i) == SubSeq(s, i, i)

\* s repeated n times
RECURSIVE Rep(_, _)
Rep(s, n) ==
    IF n = 0 THEN ""
    ELSE LET h == Rep(s, n \div 2)
         IN  IF n % 2 = 0 THEN h \o h ELSE h \o h \o s

\* least i >= b with the i-th character of s in C, 0 when there is none
FirstIn(s, C, b) ==
    IF \E i \in b..Len(s) : Char(s, i) \in C
    THEN CHOOSE i \in b..Len(s) :
            Char(s, i) \in C /\ \A j \in b..(i - 1) : Char(s, j) \notin C
    ELSE 0

\* least i >= b with the i-th character of s not in C, 0 when there is none
FirstNotIn(s, C, b) ==
    IF \E i \in b..Len(s) : Char(s, i) \notin C
    THEN CHOOSE i \in b..Len(s) :
            Char(s, i) \notin C /\ \A j \in b..(i - 1) : Char(s, j) \in C
    ELSE 0

\* greatest i with the i-th character of s in C, 0 when there is none
LastIn(s, C) ==
    IF \E i \in 1..Len(s) : Char(s, i) \in C
    THEN CHOOSE i \in 1..Len(s) :
            Char(s, i) \in C /\ \A j \in (i + 1)..Len(s) : Char(s, j) \notin C
    ELSE 0

\* greatest i with the i-th character of s not in C, 0 when there is none
LastNotIn(s, C) ==
    IF \E i \in 1..Len(s) : Char(s, i) \notin C
    THEN CHOOSE i \in 1..Len(s) :
            Char(s, i) \notin C /\ \A j \in (i + 1)..Len(s) : Char(s, j) \in C
    ELSE 0

UpperCase == "ABCDEFGHIJKLMNOPQRSTUVWXYZ"
LowerCase == "abcdefghijklmnopqrstuvwxyz"

UpperChars == {Char(UpperCase, i) : i \in 1..Len(UpperCase)}
LowerTable == [c \in UpperChars |-> Char(LowerCase, FirstIn(UpperCase, {c}, 1))]
LowerChar(c) == IF c \in UpperChars THEN LowerTable[c] ELSE c

\* str.lower()
RECURSIVE Lower(_)
Lower(s) == IF s = "" THEN "" ELSE LowerChar(Char(s, 1)) \o Lower(Tail(s))

\* str.startswith(p)
StartsWith(s, p) == Len(s) >= Len(p) /\ SubSeq(s, 1, Len(p)) = p

\* p in s, for strings
Contains(s, p) ==
    \E i \in 1..(Len(s) - Len(p) + 1) : SubSeq(s, i, i + Len(p) - 1) = p

Whitespace == {" ", "\t", "\n", "\r", "\f"}

\* str.split() from position b on: the maximal runs of non-whitespace
\* characters, in order
RECURSIVE SplitFrom(_, _)
SplitFrom(s, b) ==
    LET start == FirstNotIn(s, Whitespace, b)
        e == FirstIn(s, Whitespace, start + 1)
        end == IF e = 0 THEN Len(s) ELSE e - 1
    IN  IF start = 0 THEN <<>> ELSE <<SubSeq(s, start, end)>> \o SplitFrom(s, end + 1)

Split(s) == SplitFrom(s, 1)

\* the concatenation of a sequence of strings: b''.join(xs)
RECURSIVE Join(_)
Join(xs) == IF xs = <<>> THEN "" ELSE Head(xs) \o Join(Tail(xs))

\* str.lstrip(' \t')
LStrip(s) ==
    LET k == FirstNotIn(s, {" ", "\t"}, 1)
    IN  IF k = 0 THEN "" ELSE SubSeq(s, k, Len(s))

\* str.rstrip('\r\n')
RStrip(s) ==
    SubSeq(s, 1, LastNotIn(s, {"\r", "\n"}))

-----------------------------------------------------------------------------
(* float(): the text forms Python accepts, and the value, held in tenths *)

Digits == "0123456789"
IsDigit(c) == c # "" /\ Contains(Digits, c)
DigitVal(c) == FirstIn(Digits, {c}, 1) - 1

\* digits with single underscores between them
IsDigitRun(t) ==
    /\ Len(t) > 0
    /\ \A i \in 1..Len(t) :
          \/ IsDigit(Char(t, i))
          \/ /\ Char(t, i) = "_"
             /\ 1 < i /\ i < Len(t)
             /\ IsDigit(Char(t, i - 1)) /\ IsDigit(Char(t, i + 1))

StripSign(t) == IF Len(t) > 0 /\ Char(t, 1) \in {"+", "-"} THEN Tail(t) ELSE t

IsMantissa(t) ==
    LET d == FirstIn(t, {"."}, 1)
        l == SubSeq(t, 1, d - 1)
        r == SubSeq(t, d + 1, Len(t))
    IN  IF d = 0 THEN IsDigitRun(t)
        ELSE /\ l = "" \/ IsDigitRun(l)
             /\ r = "" \/ IsDigitRun(r)
             /\ ~(l = "" /\ r = "")

IsDecimal(t) ==
    LET e == FirstIn(t, {"e", "E"}, 1)
    IN  IF e = 0 THEN IsMantissa(t)
        ELSE /\ IsMantissa(SubSeq(t, 1, e - 1))
             /\ IsDigitRun(StripSign(SubSeq(t, e + 1, Len(t))))

\* str.strip(), as float() applies it to its argument
Strip(s) ==
    LET a == FirstNotIn(s, Whitespace, 1)
        b == LastNotIn(s, Whitespace)
    IN  IF a = 0 THEN "" ELSE SubSeq(s, a, b)

\* whether float(s) returns (TRUE) or raises ValueError (FALSE)
FloatOk(s) ==
    LET t == StripSign(Strip(s))
    IN  \/ Lower(t) \in {"inf", "infinity", "nan"}
        \/ IsDecimal(t)

\* the number a run of digits denotes
RECURSIVE DigitsValue(_, _)
DigitsValue(t, acc) ==
    IF t = "" THEN acc
    ELSE IF Char(t, 1) = "_" THEN DigitsValue(Tail(t), acc)
    ELSE DigitsValue(Tail(t), 10 * acc + DigitVal(Char(t, 1)))

RECURSIVE Pow10(_)
Pow10(n) == IF n = 0 THEN 1 ELSE 10 * Pow10(n - 1)

\* float(s) for a text FloatOk accepts: nan, inf, or the value in tenths, which
\* holds every amount with at most one decimal place
Float(s) ==
    LET u == Strip(s)
        neg == Len(u) > 0 /\ Char(u, 1) = "-"
        t == StripSign(u)
        e == FirstIn(t, {"e", "E"}, 1)
        m == IF e = 0 THEN t ELSE SubSeq(t, 1, e - 1)
        x == SubSeq(t, e + 1, Len(t))
        ex == IF e = 0 THEN 0
              ELSE (IF Char(x, 1) = "-" THEN -1 ELSE 1) * DigitsValue(StripSign(x), 0)
        d == FirstIn(m, {"."}, 1)
        ip == IF d = 0 THEN m ELSE SubSeq(m, 1, d - 1)
        fp == IF d = 0 THEN "" ELSE SubSeq(m, d + 1, Len(m))
        nf == Cardinality({i \in 1..Len(fp) : Char(fp, i) # "_"})
        all == DigitsValue(ip \o fp, 0)
        sh == ex - nf + 1
        mag == IF sh >= 0 THEN all * Pow10(sh) ELSE all \div Pow10(-sh)
    IN  IF Lower(t) = "nan" THEN [kind |-> "nan", tenths |-> 0]
        ELSE IF Lower(t) \in {"inf", "infinity"}
        THEN [kind |-> IF neg THEN "-inf" ELSE "inf", tenths |-> 0]
        ELSE [kind |-> "finite", tenths |-> IF neg THEN -mag ELSE mag]

-----------------------------------------------------------------------------
(* urllib.parse.urlparse(target).path, for a target in origin form *)

\* s up to, not including, the first occurrence of c
Before(s, c) ==
    LET k == FirstIn(s, {c}, 1)
    IN  IF k = 0 THEN s ELSE SubSeq(s, 1, k - 1)

\* the network location of a target without a scheme: what follows a leading
\* "//" up to the next "/", "?" or "#"
Netloc(target) ==
    IF StartsWith(target, "//")
    THEN LET k == FirstIn(target, {"/", "?", "#"}, 3)
         IN  SubSeq(target, 3, IF k = 0 THEN Len(target) ELSE k - 1)
    ELSE ""

\* urlparse raises ValueError ("Invalid IPv6 URL") on a network location with
\* one square bracket and not the other
UrlOk(target) ==
    LET n == Netloc(target)
    IN  Contains(n, "[") <=> Contains(n, "]")

\* the path of a target that starts with a single "/": the fragment, the query
\* and the last segment's parameters are cut off
UrlPath(target) ==
    LET u == Before(Before(target, "#"), "?")
        sc == FirstIn(u, {";"}, LastIn(u, {"/"}) + 1)
    IN  IF sc = 0 THEN u ELSE SubSeq(u, 1, sc - 1)

-----------------------------------------------------------------------------
(* email.parser.Parser().parsestr: the header block as a Message *)

\* the text from position b on, cut after each line break (\r\n, \r or \n),
\* breaks kept
RECURSIVE SplitLinesFrom(_, _)
SplitLinesFrom(s, b) ==
    LET e == FirstIn(s, {"\r", "\n"}, b)
        end == IF e = 0 THEN Len(s)
               ELSE IF Char(s, e) = "\r" /\ Char(s, e + 1) = "\n" THEN e + 1 ELSE e
    IN  IF b > Len(s) THEN <<>> ELSE <<SubSeq(s, b, end)>> \o SplitLinesFrom(s, end + 1)

SplitLines(s) == SplitLinesFrom(s, 1)

\* the characters of a header name: printable ASCII but the colon and the space
\* (the grave accent, which a TLA+ string cannot hold, is left out)
NameChars ==
    "!\"#$%&'()*+,-./0123456789;<=>?@" \o UpperCase \o "[\\]^_" \o LowerCase \o "{|}~"

Colon(l) == FirstIn(l, {":"}, 1)

\* feedparser's headerRE: a name and a colon, or a continuation line
HeaderLike(l) ==
    \/ Len(l) > 0 /\ Char(l, 1) \in {" ", "\t"}
    \/ /\ Colon(l) > 0
       /\ \A j \in 1..(Colon(l) - 1) : Contains(NameChars, Char(l, j))

\* the headers of the lines from the k-th on; the first line that is no header
\* line ends the block, a continuation line is added to the header before it
RECURSIVE ParseHeaderLines(_, _, _)
ParseHeaderLines(lines, k, acc) ==
    IF k > Len(lines) \/ ~HeaderLike(lines[k]) THEN acc
    ELSE LET l == lines[k]
             n == Len(acc)
         IN  IF Char(l, 1) \in {" ", "\t"}
             THEN ParseHeaderLines(lines, k + 1,
                    IF n = 0 THEN acc
                    ELSE [acc EXCEPT ![n].value = acc[n].value \o l])
             ELSE IF Colon(l) = 1 THEN ParseHeaderLines(lines, k + 1, acc)
             ELSE ParseHeaderLines(lines, k + 1,
                    Append(acc, [name |-> SubSeq(l, 1, Colon(l) - 1),
                                 value |-> LStrip(SubSeq(l, Colon(l) + 1, Len(l)))]))

\* Parser().parsestr(sheaders): name/value pairs in order, values without the
\* trailing line break
ParseStr(sheaders) ==
    LET hs == ParseHeaderLines(SplitLines(sheaders), 1, <<>>)
    IN  [i \in 1..Len(hs) |-> [name |-> hs[i].name, value |-> RStrip(hs[i].value)]]

\* Message.get(name): the first value under that name, case-insensitively
RECURSIVE GetFrom(_, _, _)
GetFrom(msg, lname, i) ==
    IF i > Len(msg) THEN None
    ELSE IF Lower(msg[i].name) = lname THEN Some(msg[i].value)
    ELSE GetFrom(msg, lname, i + 1)

Get(msg, name) == GetFrom(msg, Lower(name), 1)


-----------------------------------------------------------------------------
(* Exceptions and responses *)

\* HTTPError(status, reason, body): the only exception with all three attributes
HTTPError(status, reason, body) ==
    [type |-> "HTTPError", attrs |-> {"status", "reason", "body"},
     status |-> status, reason |-> reason, body |-> body]

\* any other exception: attrs are the attributes send_error can read from it
Exc(type, attrs) ==
    [type |-> type, attrs |-> attrs, status |-> 0, reason |-> "", body |-> None]

\* Response(status, reason, headers, body)
Response(status, reason, hdrs, body) ==
    [status |-> status, reason |-> reason, headers |-> hdrs, body |-> body]

\* str(raw, 'iso-8859-1'), bytes.decode('iso-8859-1') and str.encode('iso-8859-1'):
\* byte k is the character of code k and back, so text and bytes hold the same
\* characters here and no byte value fails
Latin1(b) == b

\* str.encode('utf-8') of ASCII text
Utf8(s) == s

-----------------------------------------------------------------------------
(* What the environment supplies *)

\* something the peer does at one readline: send these bytes, or reset
Recv(data) == [rst |-> FALSE, data |-> data]
Rst == [rst |-> TRUE, data |-> ""]

Targets == {"/convert/10.5", "/convert/2?x=1", "/convert/abc", "/convert/", "/other/1", "//["}

\* a request line of exactly n bytes, with three tokens
LineOfLength(n, ver) == Rep("G", n - Len(ver) - 5) \o " / " \o ver \o "\r\n"

RequestLines ==
    {"GET " \o t \o " HTTP/1.1\r\n" : t \in Targets}
    \cup {"POST /convert/10.5 HTTP/1.1\r\n",
          "GET /convert/10.5 HTTP/1.0\r\n", "GET  /convert/10.5\tHTTP/1.1\n",
          "GET /convert/10.5\r\n", "GET /convert/10.5 HTTP/1.1 x\r\n", "",
          "GET /convert/10.5 http/1.1\r\n",
          LineOfLength(MAX_LINE, "HTTP/1.1"), LineOfLength(MAX_LINE, "HTTP/1.0"),
          LineOfLength(MAX_LINE + 1, "HTTP/1.1"), LineOfLength(MAX_LINE + 1, "HTTP/1.0"),
          LineOfLength(MAX_LINE + 9, "HTTP/1.1")}

\* what the peer does at the first readline
LinePeers == {Recv(l) : l \in RequestLines} \cup {Rst}

HostLines ==
    {"Host: " \o server_name \o "\r\n",
     "host:" \o server_name \o ":" \o port \o "\n",
     "Host: other.org\r\n",
     "Host:\r\n"}
AcceptLines == {"Accept: application/json\r\n", "Accept: text/html\r\n"}
HeaderLines == HostLines \cup AcceptLines

PadLine == "X-Pad: 1\r\n"
LongHeader(n) == "X-Long: " \o Rep("b", n - 10) \o "\r\n"

RECURSIVE SeqsUpTo(_, _)
SeqsUpTo(S, n) ==
    IF n = 0 THEN {<<>>}
    ELSE LET P == SeqsUpTo(S, n - 1)
         IN  P \cup {Append(p, x) : p \in {q \in P : Len(q) = n - 1}, x \in S}

\* header blocks: every block of up to MaxHdr header lines, blocks padded to
\* MAX_HEADERS lines and to one more, and blocks with a line of MAX_LINE bytes
\* and of one byte more
HeaderBlocks ==
    SeqsUpTo(HeaderLines, MaxHdr)
    \cup {<<h>> \o a \o [i \in 1..n |-> PadLine] :
             h \in {"Host: " \o server_name \o "\r\n"},
             n \in {MAX_HEADERS - 2, MAX_HEADERS - 1},
             a \in {<<"accept: text/html,*/*;q=0.8\r\n">>, <<"Accept: */*\r\n", PadLine>>}}
    \cup {<<"Host: " \o server_name \o "\r\n", LongHeader(n)>> : n \in {MAX_LINE, MAX_LINE + 1}}

\* how the peer ends the header block: an empty line, the end of the stream, or a reset
BlockEnds == {Recv("\r\n"), Recv("\n"), Recv(""), Rst}

\* what the peer does from the second readline on
HeaderStreams ==
    {[i \in 1..Len(b) |-> Recv(b[i])] \o <<e>> : b \in HeaderBlocks, e \in BlockEnds}

\* what the transport under get_latest does: an exception of urlopen or of the
\* read, or a status code and the decoded JSON document (None for null)
Rates(rs) == [base |-> "USD", timestamp |-> 1700000000, rates |-> rs]
Transports ==
    {[raises |-> "", code |-> 200, json |-> Some(Rates(<< <<"RUB", 90>> >>))],
     [raises |-> "", code |-> 200, json |-> Some(Rates(<< <<"EUR", 2>> >>))],
     [raises |-> "", code |-> 200, json |-> Some(Rates(<<>>))],
     [raises |-> "", code |-> 200, json |-> None],
     [raises |-> "", code |-> 204, json |-> None],
     [raises |-> "URLError", code |-> 0, json |-> None],
     [raises |-> "urllib.HTTPError", code |-> 0, json |-> None],
     [raises |-> "ConnectionResetError", code |-> 0, json |-> None]}

\* how a write of a response ends: all of it reaches the peer, or the write
\* raises after the first k chunks did, k up to MaxPartial
WriteFailures == {"ConnectionResetError", "BrokenPipeError"}
Partial(chunks) == {k \in 0..(Len(chunks) - 1) : k <= MaxPartial}


-----------------------------------------------------------------------------
(* rfile.readline(limit): up to and with the first line feed, at most limit bytes *)

ReadLine(data, limit) ==
    LET nl == FirstIn(data, {"\n"}, 1)
        n == IF nl = 0 THEN Len(data) ELSE nl
    IN  SubSeq(data, 1, IF n > limit THEN limit ELSE n)

-----------------------------------------------------------------------------
(* The state after construction: serve_forever is about to accept *)

Init ==
    /\ pc = "accept"
    /\ nconn = 0
    /\ conn = 0
    /\ sock = "none"
    /\ rfile = "none"
    /\ raw = None
    /\ words = None
    /\ hlines = <<>>
    /\ headers = None
    /\ req = None
    /\ amount = None
    /\ res = None
    /\ resp = None
    /\ exc = None
    /\ out = <<>>
    /\ sent = 0
    /\ reads = 0
    /\ calls = 0
    /\ outcome = "none"

\* serve_client's except clauses, for an exception e raised inside its try block
\* by parse_request or handle_request: a connection reset drops conn, anything
\* else goes to send_error
Raise(e) ==
    /\ exc' = Some(e)
    /\ IF e.type = "ConnectionResetError"
       THEN conn' = 0 /\ pc' = "finish"
       ELSE conn' = conn /\ pc' = "send_error"

\* serv_sock.accept() returns the next connection and serve_client is entered
Accept ==
    /\ pc = "accept"
    /\ nconn < MaxConns
    /\ nconn' = nconn + 1
    /\ conn' = nconn + 1
    /\ sock' = "open"
    /\ rfile' = "none"
    /\ pc' = "parse_request_line"
    /\ raw' = None /\ words' = None /\ hlines' = <<>> /\ headers' = None /\ req' = None
    /\ amount' = None /\ res' = None /\ resp' = None /\ exc' = None /\ out' = <<>>
    /\ sent' = 0 /\ reads' = 0 /\ calls' = 0 /\ outcome' = "none"

\* parse_request_line without its version check
parse_request_line_any_version(peer) ==
    LET r == ReadLine(peer.data, MAX_LINE + 1)
        w == Split(Latin1(r))
    IN  IF peer.rst
        THEN [raises |-> Some(Exc("ConnectionResetError", {})), raw |-> None, words |-> None]
        ELSE IF Len(r) > MAX_LINE
        THEN [raises |-> Some(HTTPError(400, "Bad request", Some("Request line is too long"))),
              raw |-> Some(r), words |-> None]
        ELSE IF Len(w) # 3
        THEN [raises |-> Some(HTTPError(400, "Bad request", Some("Malformed request line"))),
              raw |-> Some(r), words |-> Some(w)]
        ELSE [raises |-> None, raw |-> Some(r), words |-> Some(w)]

\* parse_request_line with its length check off by one
parse_request_line_off_by_one(peer) ==
    LET r == ReadLine(peer.data, MAX_LINE + 1)
        w == Split(Latin1(r))
    IN  IF peer.rst
        THEN [raises |-> Some(Exc("ConnectionResetError", {})), raw |-> None, words |-> None]
        ELSE IF Len(r) > MAX_LINE + 1
        THEN [raises |-> Some(HTTPError(400, "Bad request", Some("Request line is too long"))),
              raw |-> Some(r), words |-> None]
        ELSE IF Len(w) # 3
        THEN [raises |-> Some(HTTPError(400, "Bad request", Some("Malformed request line"))),
              raw |-> Some(r), words |-> Some(w)]
        ELSE IF w[3] # "HTTP/1.1"
        THEN [raises |-> Some(HTTPError(505, "HTTP Version Not Supported", None)),
              raw |-> Some(r), words |-> Some(w)]
        ELSE [raises |-> None, raw |-> Some(r), words |-> Some(w)]

\* parse_request_line on what the peer does at the first readline: the
\* exception raised, if any, and the locals raw and words as far as it got
parse_request_line(peer) ==
    LET r == ReadLine(peer.data, MAX_LINE + 1)
        w == Split(Latin1(r))
    IN  IF peer.rst
        THEN [raises |-> Some(Exc("ConnectionResetError", {})), raw |-> None, words |-> None]
        ELSE IF Len(r) > MAX_LINE
        THEN [raises |-> Some(HTTPError(400, "Bad request", Some("Request line is too long"))),
              raw |-> Some(r), words |-> None]
        ELSE IF Len(w) # 3
        THEN [raises |-> Some(HTTPError(400, "Bad request", Some("Malformed request line"))),
              raw |-> Some(r), words |-> Some(w)]
        ELSE IF w[3] # "HTTP/1.1"
        THEN [raises |-> Some(HTTPError(505, "HTTP Version Not Supported", None)),
              raw |-> Some(r), words |-> Some(w)]
        ELSE [raises |-> None, raw |-> Some(r), words |-> Some(w)]

\* parse_request_line over everything the peer may do
LineOutcomes == {parse_request_line(p) : p \in LinePeers}

\* parse_request up to the request line: the read stream is made and the line read
ParseRequestLine ==
    /\ pc = "parse_request_line"
    /\ \E r \in LineOutcomes :
          /\ rfile' = "open"
          /\ reads' = reads + 1
          /\ raw' = r.raw
          /\ words' = r.words
          /\ IF r.raises.some
             THEN Raise(r.raises.val)
             ELSE pc' = "parse_headers" /\ UNCHANGED <<conn, exc>>
    /\ UNCHANGED <<nconn, sock, hlines, headers, req, amount, res, resp, out, sent, calls,
                   outcome>>

\* parse_headers' loop with >= for > in the count of header lines
RECURSIVE ReadHeadersOneLess(_, _, _)
ReadHeadersOneLess(stream, k, hs) ==
    LET l == ReadLine(stream[k].data, MAX_LINE + 1)
    IN  IF stream[k].rst
        THEN [raises |-> Some(Exc("ConnectionResetError", {})), lines |-> <<>>, reads |-> k,
              read |-> hs]
        ELSE IF Len(l) > MAX_LINE
        THEN [raises |-> Some(HTTPError(494, "Request header too large", None)),
              lines |-> <<>>, reads |-> k, read |-> Append(hs, l)]
        ELSE IF l \in {"\r\n", "\n", ""}
        THEN [raises |-> None, lines |-> hs, reads |-> k, read |-> hs]
        ELSE IF Len(hs) + 1 >= MAX_HEADERS
        THEN [raises |-> Some(HTTPError(494, "Too many headers", None)),
              lines |-> <<>>, reads |-> k, read |-> Append(hs, l)]
        ELSE ReadHeadersOneLess(stream, k + 1, Append(hs, l))

\* parse_headers' loop from the k-th readline on, hs being the lines collected:
\* the exception raised or the lines, and the number of readline calls made
RECURSIVE ReadHeaders(_, _, _)
ReadHeaders(stream, k, hs) ==
    LET l == ReadLine(stream[k].data, MAX_LINE + 1)
    IN  IF stream[k].rst
        THEN [raises |-> Some(Exc("ConnectionResetError", {})), lines |-> <<>>, reads |-> k,
              read |-> hs]
        ELSE IF Len(l) > MAX_LINE
        THEN [raises |-> Some(HTTPError(494, "Request header too large", None)),
              lines |-> <<>>, reads |-> k, read |-> Append(hs, l)]
        ELSE IF l \in {"\r\n", "\n", ""}
        THEN [raises |-> None, lines |-> hs, reads |-> k, read |-> hs]
        ELSE IF Len(hs) + 1 > MAX_HEADERS
        THEN [raises |-> Some(HTTPError(494, "Too many headers", None)),
              lines |-> <<>>, reads |-> k, read |-> Append(hs, l)]
        ELSE ReadHeaders(stream, k + 1, Append(hs, l))

\* parse_headers on what the peer does from the second readline on
parse_headers(stream) ==
    LET r == ReadHeaders(stream, 1, <<>>)
    IN  [raises |-> r.raises,
         headers |-> IF r.raises.some THEN <<>> ELSE ParseStr(Latin1(Join(r.lines))),
         reads |-> r.reads, read |-> r.read]

\* parse_headers over everything the peer may do
HeaderOutcomes == {parse_headers(st) : st \in HeaderStreams}

ParseHeaders ==
    /\ pc = "parse_headers"
    /\ \E r \in HeaderOutcomes :
          /\ reads' = reads + r.reads
          /\ hlines' = r.read
          /\ IF r.raises.some
             THEN Raise(r.raises.val) /\ headers' = None
             ELSE /\ headers' = Some(r.headers)
                  /\ pc' = "parse_request"
                  /\ UNCHANGED <<conn, exc>>
    /\ UNCHANGED <<nconn, sock, rfile, raw, words, req, amount, res, resp, out, sent, calls,
                   outcome>>

\* the Host check with the comparison against the server name forgotten
HostCheckPresenceOnly(host) ==
    IF ~host.some \/ host.val = ""
    THEN Some(HTTPError(400, "Bad request", Some("Host header is missing")))
    ELSE None

\* the rest of parse_request: the Host header is checked and the Request made
HostCheck(host) ==
    IF ~host.some \/ host.val = ""
    THEN Some(HTTPError(400, "Bad request", Some("Host header is missing")))
    ELSE IF host.val \notin {server_name, server_name \o ":" \o port}
    THEN Some(HTTPError(404, "Not found", Some("Invalid host")))
    ELSE None

\* a Request made with method and target the wrong way round
RequestSwapped(w, hdrs) ==
    [method |-> w[2], target |-> w[1], version |-> w[3], headers |-> hdrs]

\* Request(method, target, version, headers, rfile)
Request(w, hdrs) ==
    [method |-> w[1], target |-> w[2], version |-> w[3], headers |-> hdrs]

ParseRequest ==
    /\ pc = "parse_request"
    /\ LET e == HostCheck(Get(headers.val, "Host"))
       IN  IF e.some
           THEN Raise(e.val) /\ req' = req
           ELSE /\ req' = Some(Request(words.val, headers.val))
                /\ pc' = "handle_request"
                /\ UNCHANGED <<conn, exc>>
    /\ UNCHANGED <<nconn, sock, rfile, raw, words, hlines, headers, amount, res, resp, out,
                   sent, reads, calls, outcome>>


-----------------------------------------------------------------------------
(* Dispatch and the route handler *)

\* Request.path
path(r) == UrlPath(r.target)

\* handle_request up to the call of handle_get_convert: the exception raised,
\* or the amount the handler is called with
handle_request(r) ==
    IF ~UrlOk(r.target)
    THEN [raises |-> Some(Exc("ValueError", {})), amount |-> None]
    ELSE IF StartsWith(path(r), "/convert/") /\ r.method = "GET"
    THEN LET a == SubSeq(path(r), Len("/convert/") + 1, Len(path(r)))
         IN  IF FloatOk(a)
             THEN [raises |-> None, amount |-> Some(Float(a))]
             ELSE [raises |-> Some(HTTPError(404, "Bad request",
                                             Some("Amount value must be float"))),
                   amount |-> None]
    ELSE [raises |-> Some(HTTPError(404, "Not found", None)), amount |-> None]

HandleRequest ==
    /\ pc = "handle_request"
    /\ LET r == handle_request(req.val)
       IN  IF r.raises.some
           THEN Raise(r.raises.val) /\ amount' = None
           ELSE /\ amount' = r.amount
                /\ pc' = "handle_get_convert"
                /\ UNCHANGED <<conn, exc>>
    /\ UNCHANGED <<nconn, sock, rfile, raw, words, hlines, headers, req, res, resp, out, sent,
                   reads, calls, outcome>>

\* OXRClient.__request over what the transport does: the exception raised or
\* the decoded document
oxr_request(t) ==
    IF t.raises # "" THEN [raises |-> Some(Exc(t.raises,
                              IF t.raises = "urllib.HTTPError"
                              THEN {"status", "reason"} ELSE {})),
                           j |-> None]
    ELSE IF t.code # 200 THEN [raises |-> Some(Exc("OXRStatusError", {})), j |-> None]
    ELSE IF ~t.json.some THEN [raises |-> Some(Exc("OXRDecodeError", {})), j |-> None]
    ELSE [raises |-> None, j |-> t.json]

\* OXRClient.get_latest(symbols=['RUB'])
get_latest(t) == oxr_request(t)

\* repr of a float, as json.dumps writes it
FloatRepr(x) ==
    CASE x.kind = "nan" -> "NaN"
      [] x.kind = "inf" -> "Infinity"
      [] x.kind = "-inf" -> "-Infinity"
      [] OTHER ->
           LET m == IF x.tenths < 0 THEN -x.tenths ELSE x.tenths
           IN  (IF x.tenths < 0 THEN "-" ELSE "") \o ToString(m \div 10) \o "."
               \o ToString(m % 10)

\* rate * amount, for an integer rate and a float amount
Times(rate, x) ==
    IF x.kind = "finite" THEN [kind |-> "finite", tenths |-> rate * x.tenths]
    ELSE IF x.kind = "nan" \/ rate = 0 THEN [kind |-> "nan", tenths |-> 0]
    ELSE IF rate > 0 THEN x
    ELSE [kind |-> IF x.kind = "inf" THEN "-inf" ELSE "inf", tenths |-> 0]

\* a body whose target_amount echoes the amount, the rate forgotten
ConvertJsonNoRate(doc, target_currency, rate, a) ==
    "{\"timestamp\": " \o ToString(doc.timestamp)
    \o ", \"base_currency\": \"" \o doc.base \o "\""
    \o ", \"base_amount\": " \o FloatRepr(a)
    \o ", \"target_currency\": \"" \o target_currency \o "\""
    \o ", \"target_amount\": " \o FloatRepr(a) \o "}"

\* json.dumps of the handler's dict
ConvertJson(doc, target_currency, rate, a) ==
    "{\"timestamp\": " \o ToString(doc.timestamp)
    \o ", \"base_currency\": \"" \o doc.base \o "\""
    \o ", \"base_amount\": " \o FloatRepr(a)
    \o ", \"target_currency\": \"" \o target_currency \o "\""
    \o ", \"target_amount\": " \o FloatRepr(Times(rate, a)) \o "}"

\* a handler that takes the JSON branch whatever Accept says
AcceptableAlways(accept) == TRUE

\* whether handle_get_convert takes the JSON branch; None has no `in`
Acceptable(accept) ==
    Contains(accept, "application/json") \/ Contains(accept, "*/*")

\* a handler that asks the provider before it looks at the Accept header
handle_get_convert_call_first(r, a, t) ==
    LET accept == Get(r.headers, "Accept")
        got == get_latest(t)
        doc == got.j.val
        body == Utf8(ConvertJson(doc, doc.rates[1][1], doc.rates[1][2], a))
    IN  IF ~accept.some
        THEN [raises |-> Some(Exc("TypeError", {})), resp |-> None, called |-> FALSE,
              res |-> None]
        ELSE IF ~Acceptable(accept.val)
        THEN [raises |-> None, called |-> TRUE, res |-> None,
              resp |-> Some(Response(406, PyStr("Not Acceptable"), None, None))]
        ELSE IF got.raises.some
        THEN [raises |-> got.raises, resp |-> None, called |-> TRUE, res |-> None]
        ELSE IF doc.rates = <<>>
        THEN [raises |-> Some(Exc("StopIteration", {})), resp |-> None, called |-> TRUE,
              res |-> got.j]
        ELSE [raises |-> None, called |-> TRUE, res |-> got.j,
              resp |-> Some(Response(200, PyStr("OK"),
                         Some(<< <<"Content-Type", PyStr("application/json; charset=utf-8")>>,
                                 <<"Content-Length", PyInt(Len(body))>> >>),
                         Some(body)))]

\* handle_get_convert given the transport's behaviour t, should it be asked:
\* the exception raised or the Response returned, and whether get_latest was called
handle_get_convert(r, a, t) ==
    LET accept == Get(r.headers, "Accept")
        got == get_latest(t)
        doc == got.j.val
        body == Utf8(ConvertJson(doc, doc.rates[1][1], doc.rates[1][2], a))
    IN  IF ~accept.some
        THEN [raises |-> Some(Exc("TypeError", {})), resp |-> None, called |-> FALSE,
              res |-> None]
        ELSE IF ~Acceptable(accept.val)
        THEN [raises |-> None, called |-> FALSE, res |-> None,
              resp |-> Some(Response(406, PyStr("Not Acceptable"), None, None))]
        ELSE IF got.raises.some
        THEN [raises |-> got.raises, resp |-> None, called |-> TRUE, res |-> None]
        ELSE IF doc.rates = <<>>
        THEN [raises |-> Some(Exc("StopIteration", {})), resp |-> None, called |-> TRUE,
              res |-> got.j]
        ELSE [raises |-> None, called |-> TRUE, res |-> got.j,
              resp |-> Some(Response(200, PyStr("OK"),
                         Some(<< <<"Content-Type", PyStr("application/json; charset=utf-8")>>,
                                 <<"Content-Length", PyInt(Len(body))>> >>),
                         Some(body)))]

HandleGetConvert ==
    /\ pc = "handle_get_convert"
    /\ \E t \in Transports :
          LET r == handle_get_convert(req.val, amount.val, t)
          IN  /\ calls' = calls + (IF r.called THEN 1 ELSE 0)
              /\ res' = r.res
              /\ IF r.raises.some
                 THEN Raise(r.raises.val) /\ resp' = resp
                 ELSE /\ resp' = r.resp
                      /\ pc' = "send_response"
                      /\ UNCHANGED <<conn, exc>>
    /\ UNCHANGED <<nconn, sock, rfile, raw, words, hlines, headers, req, amount, out, sent,
                   reads, outcome>>

-----------------------------------------------------------------------------
(* The response writer and the error mapper *)

\* what send_response writes to wfile, one chunk per write call
send_response(r) ==
    <<Latin1("HTTP/1.1 " \o Format(PyInt(r.status)) \o " " \o Format(r.reason) \o "\r\n")>>
    \o (IF r.headers.some
        THEN [i \in 1..Len(r.headers.val) |->
                Latin1(r.headers.val[i][1] \o ": " \o Format(r.headers.val[i][2]) \o "\r\n")]
        ELSE <<>>)
    \o <<"\r\n">>
    \o (IF r.body.some /\ r.body.val # "" THEN <<r.body.val>> ELSE <<>>)

\* send_error taking the length of the reason for the length of the body
send_error_reason_length(e) ==
    IF {"status", "reason", "body"} \subseteq e.attrs
    THEN LET body == Utf8(IF e.body.some /\ e.body.val # "" THEN e.body.val ELSE e.reason)
         IN  Response(e.status, PyStr(e.reason),
                      Some(<< <<"Content-Length", PyInt(Len(e.reason))>> >>), Some(body))
    ELSE Response(500, PyBytes("Internal Server Error"),
                  Some(<< <<"Content-Length", PyInt(Len("Internal Server Error"))>> >>),
                  Some("Internal Server Error"))

\* the Response send_error makes of an exception: its own status, reason and
\* body when it has all three attributes, the generic 500 otherwise
send_error(e) ==
    IF {"status", "reason", "body"} \subseteq e.attrs
    THEN LET body == Utf8(IF e.body.some /\ e.body.val # "" THEN e.body.val ELSE e.reason)
         IN  Response(e.status, PyStr(e.reason),
                      Some(<< <<"Content-Length", PyInt(Len(body))>> >>), Some(body))
    ELSE Response(500, PyBytes("Internal Server Error"),
                  Some(<< <<"Content-Length", PyInt(Len("Internal Server Error"))>> >>),
                  Some("Internal Server Error"))

\* send_response called from serve_client's try block: the write reaches the
\* peer, or it raises after k chunks did and the except clauses take over
SendResponse ==
    /\ pc = "send_response"
    /\ sent' = sent + 1
    /\ LET chunks == send_response(resp.val)
       IN  \/ /\ out' = out \o chunks
              /\ pc' = "finish"
              /\ UNCHANGED <<conn, exc>>
           \/ \E f \in WriteFailures, k \in Partial(chunks) :
                 /\ out' = out \o SubSeq(chunks, 1, k)
                 /\ Raise(Exc(f, {}))
    /\ UNCHANGED <<nconn, sock, rfile, raw, words, hlines, headers, req, amount, res, resp,
                   reads, calls, outcome>>

\* send_error called from the except clause: an exception of its write leaves
\* serve_client
SendError ==
    /\ pc = "send_error"
    /\ sent' = sent + 1
    /\ resp' = Some(send_error(exc.val))
    /\ LET chunks == send_response(send_error(exc.val))
       IN  \/ /\ out' = out \o chunks
              /\ pc' = "finish"
              /\ outcome' = outcome
           \/ \E f \in WriteFailures, k \in Partial(chunks) :
                 /\ out' = out \o SubSeq(chunks, 1, k)
                 /\ pc' = "serve_forever"
                 /\ outcome' = f
    /\ UNCHANGED <<nconn, conn, sock, rfile, raw, words, hlines, headers, req, amount, res, exc,
                   reads, calls>>

-----------------------------------------------------------------------------
(* The end of serve_client and the accept loop *)

\* `if conn:` and what follows: req.rfile.close() needs req bound
Finish ==
    /\ pc = "finish"
    /\ pc' = "serve_forever"
    /\ IF conn = 0
       THEN outcome' = "returned" /\ UNCHANGED <<sock, rfile>>
       ELSE IF ~req.some
       THEN outcome' = "UnboundLocalError" /\ UNCHANGED <<sock, rfile>>
       ELSE /\ outcome' = "returned"
            /\ rfile' = "closed"
            /\ sock' = "closed"
    /\ UNCHANGED <<nconn, conn, raw, words, hlines, headers, req, amount, res, resp, exc, out,
                   sent, reads, calls>>

\* a handler that catches HTTPError only
CaughtHTTPErrorOnly(type) == type = "HTTPError"

\* the exceptions serve_forever's `except Exception` catches: all that
\* serve_client raises here
Caught(type) == TRUE

\* serve_forever's loop: back to accept, unless an exception gets past its handler
ServeForever ==
    /\ pc = "serve_forever"
    /\ pc' = IF outcome = "returned" \/ Caught(outcome) THEN "accept" ELSE "terminated"
    /\ UNCHANGED <<nconn, conn, sock, rfile, raw, words, hlines, headers, req, amount, res,
                   resp, exc, out, sent, reads, calls, outcome>>

Next ==
    \/ Accept
    \/ ParseRequestLine
    \/ ParseHeaders
    \/ ParseRequest
    \/ HandleRequest
    \/ HandleGetConvert
    \/ SendResponse
    \/ SendError
    \/ Finish
    \/ ServeForever

Spec == Init /\ [][Next]_vars


-----------------------------------------------------------------------------
(* Properties *)

\* the status line send_response writes for a status and a reason phrase
StatusLine(status, reason) == "HTTP/1.1 " \o ToString(status) \o " " \o reason \o "\r\n"

\* the first chunk that reached the peer is a status line with this status
FirstStatusIs(status) ==
    out # <<>> => StartsWith(out[1], "HTTP/1.1 " \o ToString(status) \o " ")

\* the last Response handed to send_response reached the peer whole
WroteResponse ==
    /\ resp.some
    /\ LET chunks == send_response(resp.val)
       IN  /\ Len(out) >= Len(chunks)
           /\ SubSeq(out, Len(out) - Len(chunks) + 1, Len(out)) = chunks

\* serve_client has dealt with the connection: it returned or raised
Served == pc \in {"serve_forever", "accept", "terminated"} /\ nconn > 0

\* the request is a GET of /convert/<a> with a or without a numeric amount
IsConvert(r) == r.method = "GET" /\ StartsWith(path(r), "/convert/")
AmountText(r) == SubSeq(path(r), Len("/convert/") + 1, Len(path(r)))

\* the peer reset the connection while the request was being parsed
ResetWhileParsing ==
    exc.some /\ exc.val.type = "ConnectionResetError" /\ ~req.some /\ sent = 0

(* C1: a GET of /convert/<numeric amount> with a valid request line, a valid
   Host and no Accept header at all is answered 406 "Not Acceptable" with no
   body, and the rate provider is not called. *)
C1_NoAccept406 ==
    (req.some /\ IsConvert(req.val) /\ FloatOk(AmountText(req.val))
       /\ ~Get(req.val.headers, "Accept").some)
    => /\ calls = 0
       /\ out # <<>> => out[1] = StatusLine(406, "Not Acceptable")
       /\ (pc = "finish" /\ conn # 0 /\ sent = 1)
             => out = <<StatusLine(406, "Not Acceptable"), "\r\n">>

(* C2: a parsed GET of /convert/<s> where s is no floating-point number is
   answered with status 400 whatever the Accept header is, and the rate
   provider is never called. *)
C2_BadAmount400 ==
    (req.some /\ IsConvert(req.val) /\ ~FloatOk(AmountText(req.val)))
    => /\ calls = 0
       /\ pc \notin {"handle_get_convert", "send_response"}
       /\ FirstStatusIs(400)
       /\ (pc = "finish" /\ conn # 0) => (out # <<>> /\ resp.val.status = 400)

(* C3: when serve_client is done with a connection, a response write was made,
   unless the peer reset the connection while the request was being parsed; a
   failure in dispatch or in the handler, the rate provider's included, never
   ends the connection without a response write. *)
C3_AlwaysResponds ==
    (pc = "serve_forever") => (sent > 0 \/ ResetWhileParsing)

(* C4: once a response has been written, on the success path and on every
   error path, the connection's read stream and its socket are both closed
   when serve_client finishes. *)
C4_ClosedAfterResponse ==
    (pc = "serve_forever" /\ WroteResponse)
    => (rfile = "closed" /\ sock = "closed")

(* C5: no outcome of serve_client (a return, an HTTPError, any other
   exception, a peer reset, an exception raised while the error response is
   written or while closing) ends the accept loop: serve_forever is never
   left, and goes back to accept. *)
C5_AcceptLoopSurvives ==
    /\ pc # "terminated"
    /\ (pc = "serve_forever" /\ outcome # "returned") => Caught(outcome)

\* serve_client raised, and serve_forever is at accept again with a connection to take
C5_Witness ==
    /\ pc = "accept" /\ nconn > 0 /\ nconn < MaxConns
    /\ outcome \in {"UnboundLocalError", "BrokenPipeError", "ConnectionResetError"}
    /\ ENABLED Accept

(* C6: when the peer resets the connection while the request line or the
   header lines are read, no byte of a response is written to the connection
   and the connection is closed; the accept loop goes on. *)
C6_ResetClosesSilently ==
    (Served /\ ResetWhileParsing)
    => /\ out = <<>>
       /\ sock = "closed"
       /\ pc # "terminated"

(* C7: a failure that is no protocol error with a status of its own (a rate
   provider transport or decode failure, an empty rate map, any other
   unexpected exception while handling) is answered with the status line
   HTTP/1.1 500 Internal Server Error and the generic body "Internal Server
   Error". *)
C7_Generic500 ==
    (/\ pc = "finish" /\ conn # 0 /\ sent = 1
     /\ req.some
     /\ exc.some /\ exc.val.type # "HTTPError")
    => /\ out # <<>>
       /\ out[1] = StatusLine(500, "Internal Server Error")
       /\ out[Len(out)] = "Internal Server Error"

\* the header block was read and parse_request has looked at the Host header
HostExamined == headers.some /\ pc # "parse_request"

\* the request went no further than parse_request, which raised this status
RejectedWith(status) ==
    /\ exc.some /\ exc.val.type = "HTTPError" /\ exc.val.status = status
    /\ ~req.some
    /\ calls = 0
    /\ pc \notin {"handle_request", "handle_get_convert", "send_response"}
    /\ FirstStatusIs(status)
    /\ resp.some => resp.val.status = status

(* C8, as claimed: with a valid request line and an acceptable header block, a
   missing Host header gives status 400, and a Host header that is present
   with a value other than the server name and <server name>:<port> gives
   404; in both cases the request is not dispatched. *)
C8_HostAsClaimed ==
    HostExamined =>
       LET host == Get(headers.val, "Host")
       IN  /\ ~host.some => RejectedWith(400)
           /\ (host.some /\ host.val \notin {server_name, server_name \o ":" \o port})
                 => RejectedWith(404)

(* C8, amended: a missing Host header, or one whose value is empty, gives
   status 400; a Host header with a non-empty value other than the server name
   and <server name>:<port> gives 404; in both cases the request is not
   dispatched. *)
C8_HostChecked ==
    HostExamined =>
       LET host == Get(headers.val, "Host")
       IN  /\ (~host.some \/ host.val = "") => RejectedWith(400)
           /\ (/\ host.some /\ host.val # ""
               /\ host.val \notin {server_name, server_name \o ":" \o port})
                 => RejectedWith(404)

\* both cases happened: an error response for a missing or empty Host, or for
\* another host, has reached the peer
C8_Witness ==
    /\ pc = "finish" /\ HostExamined /\ ~req.some /\ WroteResponse
    /\ Get(headers.val, "Host") = Some("other.org")
    /\ out[1] = StatusLine(404, "Not found")

\* the request line as split, also where parse_request_line raised before splitting
WireWords == IF words.some THEN words.val
             ELSE IF raw.some THEN Split(Latin1(raw.val)) ELSE <<>>

\* the request goes no further than parse_request_line, which raised this
\* status after one readline
LineRejectedWith(status) ==
    /\ exc.some /\ exc.val.type = "HTTPError" /\ exc.val.status = status
    /\ reads = 1
    /\ ~headers.some /\ ~req.some
    /\ pc \notin {"parse_headers", "parse_request", "handle_request",
                  "handle_get_convert", "send_response"}
    /\ FirstStatusIs(status)
    /\ resp.some => resp.val.status = status

(* C9, as claimed: a request line of exactly three whitespace-separated tokens
   whose third token is not "HTTP/1.1" gives status 505 whatever headers
   follow, decided before a header line is read. *)
C9_VersionAsClaimed ==
    (raw.some /\ Len(WireWords) = 3 /\ WireWords[3] # "HTTP/1.1")
    => LineRejectedWith(505)

(* C9, amended: a request line of at most MAX_LINE bytes with exactly three
   whitespace-separated tokens whose third token is not "HTTP/1.1" gives
   status 505 whatever headers follow, decided before a header line is read. *)
C9_VersionChecked ==
    (/\ raw.some /\ Len(raw.val) <= MAX_LINE
     /\ words.some /\ Len(words.val) = 3 /\ words.val[3] # "HTTP/1.1")
    => LineRejectedWith(505)

\* a 505 reached the peer for a line of exactly MAX_LINE bytes
C9_Witness ==
    /\ pc = "finish" /\ WroteResponse
    /\ raw.some /\ Len(raw.val) = MAX_LINE
    /\ words.some /\ Len(words.val) = 3 /\ words.val[3] = "HTTP/1.0"
    /\ out[1] = StatusLine(505, "HTTP Version Not Supported")

(* C10: a request line longer than MAX_LINE bytes gives status 400, raised
   before a header line is read: no readline follows the bounded read of the
   request line. *)
C10_LongLine400 ==
    (raw.some /\ Len(raw.val) > MAX_LINE) => LineRejectedWith(400)

\* the 400 for a line over the limit reached the peer after a single readline
C10_Witness ==
    /\ pc = "finish" /\ WroteResponse
    /\ raw.some /\ Len(raw.val) = MAX_LINE + 1
    /\ reads = 1
    /\ out = <<StatusLine(400, "Bad request"), "Content-Length: 24\r\n", "\r\n",
               "Request line is too long">>

\* parse_headers was entered and has returned or raised
HeadersDone ==
    /\ words.some /\ Len(words.val) = 3 /\ words.val[3] = "HTTP/1.1"
    /\ pc # "parse_headers"

\* a header line longer than MAX_LINE was read
LongLineRead == \E i \in 1..Len(hlines) : Len(hlines[i]) > MAX_LINE

\* the header lines read before the empty line that ends the block
NonEmptyLines == {i \in 1..Len(hlines) : hlines[i] \notin {"\r\n", "\n", ""}}

Raised494 == exc.some /\ exc.val.type = "HTTPError" /\ exc.val.status = 494

(* C11: after a valid request line, parse_headers raises 494 exactly when a
   header line longer than MAX_LINE is read or more than MAX_HEADERS non-empty
   header lines are read before the empty line; a block of exactly MAX_HEADERS
   lines within the limit and an empty line is accepted. *)
C11_HeaderLimits ==
    HeadersDone =>
       /\ Raised494 <=> (LongLineRead \/ Cardinality(NonEmptyLines) > MAX_HEADERS)
       /\ Raised494 => (~headers.some /\ ~req.some /\ FirstStatusIs(494)
                        /\ (resp.some => resp.val.status = 494))

\* a block of exactly MAX_HEADERS header lines was accepted and the request answered 200
C11_Witness ==
    /\ pc = "finish" /\ HeadersDone
    /\ Cardinality(NonEmptyLines) = MAX_HEADERS
    /\ reads = MAX_HEADERS + 2
    /\ headers.some /\ Len(headers.val) = MAX_HEADERS
    /\ WroteResponse /\ resp.val.status = 200

\* the header block was read to its empty line or to the end of the stream,
\* the peer not resetting, and is within both limits
BlockWithinLimits ==
    /\ reads > 1
    /\ ~ResetWhileParsing
    /\ ~LongLineRead
    /\ Cardinality(NonEmptyLines) <= MAX_HEADERS

\* the first Host header is the server name, with or without the port
HostMatches ==
    /\ headers.some
    /\ Get(headers.val, "Host") \in {Some(server_name), Some(server_name \o ":" \o port)}

\* parse_request returned a Request made of these three tokens, in order
ParsedAs(w) ==
    /\ req.some
    /\ req.val.method = w[1] /\ req.val.target = w[2] /\ req.val.version = w[3]
    /\ \A i \in 1..3 : w[i] # ""
    /\ Len(w[1]) + Len(w[2]) + Len(w[3]) + 2 <= Len(raw.val)
    /\ StartsWith(raw.val, w[1])

(* C12, as claimed: a request whose request line has exactly three tokens with
   version "HTTP/1.1", whose header block is within the limits and whose Host
   is the server name or <server name>:<port> is parsed without an error into
   a Request whose method, target and version are the three tokens in order. *)
C12_ParseAsClaimed ==
    (/\ raw.some /\ Len(WireWords) = 3 /\ WireWords[3] = "HTTP/1.1"
     /\ pc \notin {"parse_headers", "parse_request"}
     /\ reads > 1 => (BlockWithinLimits /\ HostMatches))
    => ParsedAs(WireWords)

(* C12, amended: the same for a request line of at most MAX_LINE bytes: the
   header block within the limits is read without an error, and with a
   matching Host the Request is made of the three tokens in order. *)
C12_ParseSucceeds ==
    (/\ raw.some /\ Len(raw.val) <= MAX_LINE
     /\ words.some /\ Len(words.val) = 3 /\ words.val[3] = "HTTP/1.1"
     /\ pc \notin {"parse_headers", "parse_request"}
     /\ BlockWithinLimits)
    => /\ headers.some
       /\ HostMatches => ParsedAs(words.val)

\* a request line with runs of blanks and a tab was parsed into its three tokens
C12_Witness ==
    /\ pc = "handle_request"
    /\ raw = Some("GET  /convert/10.5\tHTTP/1.1\n")
    /\ BlockWithinLimits /\ HostMatches
    /\ req.some /\ req.val.method = "GET" /\ req.val.target = "/convert/10.5"
    /\ req.val.version = "HTTP/1.1"

\* handle_request has routed the parsed request
Dispatched == req.some /\ pc # "handle_request"

\* the conversion route was taken: the amount was looked at, and the handler
\* called with it when it is a number
RouteTaken ==
    \/ amount.some
    \/ exc.some /\ exc.val.type = "HTTPError"
                /\ exc.val.body = Some("Amount value must be float")

\* the request was answered 404 "Not found" with no handler and no provider call
NotFound ==
    /\ exc = Some(HTTPError(404, "Not found", None))
    /\ ~amount.some
    /\ calls = 0
    /\ out # <<>> => out[1] = StatusLine(404, "Not found")
    /\ resp.some => (resp.val.status = 404 /\ resp.val.reason = PyStr("Not found"))

(* C13: for every parsed request, the conversion route is taken if and only
   if the path starts with "/convert/" and the method is "GET"; every other
   request is answered 404 "Not found" with no handler and no provider call. *)
C13_Routing ==
    Dispatched =>
       /\ RouteTaken <=> IsConvert(req.val)
       /\ ~IsConvert(req.val) => NotFound

\* handle_get_convert was called, with a numeric amount, and has returned or raised
Handled ==
    /\ req.some /\ IsConvert(req.val) /\ FloatOk(AmountText(req.val))
    /\ pc \notin {"handle_request", "handle_get_convert"}

(* C14: a valid GET of /convert/<numeric amount> whose Accept header is present
   and contains neither "application/json" nor "*/*" is answered 406 "Not
   Acceptable" with no header and no body, and the rate provider is not
   called; what send_response writes for it, as far as its write gets, is that
   status line and an empty line. *)
C14_NotAcceptable ==
    (/\ Handled
     /\ LET accept == Get(req.val.headers, "Accept")
        IN  /\ accept.some
            /\ ~Contains(accept.val, "application/json")
            /\ ~Contains(accept.val, "*/*"))
    => /\ calls = 0
       /\ sent <= 1 => resp = Some(Response(406, PyStr("Not Acceptable"), None, None))
       /\ (sent = 1 /\ out # <<>>) => out[1] = StatusLine(406, "Not Acceptable")
       /\ (pc = "finish" /\ conn # 0 /\ sent = 1)
             => out = <<StatusLine(406, "Not Acceptable"), "\r\n">>

\* the 406 for Accept: text/html reached the peer: a status line and an empty line
C14_Witness ==
    /\ pc = "finish" /\ Handled
    /\ Get(req.val.headers, "Accept") = Some("text/html")
    /\ out = <<"HTTP/1.1 406 Not Acceptable\r\n", "\r\n">>
    /\ calls = 0

\* a JSON object of these members, as json.dumps separates them
RECURSIVE JsonMembers(_)
JsonMembers(ms) ==
    IF ms = <<>> THEN ""
    ELSE "\"" \o ms[1][1] \o "\": " \o ms[1][2]
         \o (IF Len(ms) > 1 THEN ", " ELSE "") \o JsonMembers(Tail(ms))
JsonObject(ms) == "{" \o JsonMembers(ms) \o "}"
JsonString(x) == "\"" \o x \o "\""
\* a number of so many tenths, written as json.dumps writes a float
JsonFloat(tenths) ==
    (IF tenths < 0 THEN "-" ELSE "") \o ToString((IF tenths < 0 THEN -tenths ELSE tenths) \div 10)
    \o "." \o ToString((IF tenths < 0 THEN -tenths ELSE tenths) % 10)

\* the body C15 describes for the provider result and the amount of the state
ExpectedBody ==
    JsonObject(<< <<"timestamp", ToString(res.val.timestamp)>>,
                  <<"base_currency", JsonString(res.val.base)>>,
                  <<"base_amount", JsonFloat(amount.val.tenths)>>,
                  <<"target_currency", JsonString(res.val.rates[1][1])>>,
                  <<"target_amount", JsonFloat(res.val.rates[1][2] * amount.val.tenths)>> >>)

(* C15: a valid GET of /convert/<amount> with an Accept header that contains
   "application/json" or "*/*", the rate provider returning base, timestamp
   and rates of exactly one symbol, is answered 200 "OK" with the JSON body of
   the keys timestamp, base_currency, base_amount, target_currency and
   target_amount (the rate times the amount), under the headers Content-Type:
   application/json; charset=utf-8 and Content-Length: the length of the
   body, in this order. *)
C15_Success ==
    (/\ Handled
     /\ LET accept == Get(req.val.headers, "Accept")
        IN  /\ accept.some
            /\ Contains(accept.val, "application/json") \/ Contains(accept.val, "*/*")
     /\ res.some /\ Len(res.val.rates) = 1
     /\ amount.some /\ amount.val.kind = "finite")
    => /\ calls = 1
       /\ sent <= 1 =>
            resp = Some(Response(200, PyStr("OK"),
                     Some(<< <<"Content-Type", PyStr("application/json; charset=utf-8")>>,
                             <<"Content-Length", PyInt(Len(ExpectedBody))>> >>),
                     Some(ExpectedBody)))
       /\ (pc = "finish" /\ conn # 0 /\ sent = 1)
             => out = <<StatusLine(200, "OK"),
                        "Content-Type: application/json; charset=utf-8\r\n",
                        "Content-Length: " \o ToString(Len(ExpectedBody)) \o "\r\n",
                        "\r\n",
                        ExpectedBody>>

\* 10.5 USD at 90 RUB: the 200 with its body of 120 bytes reached the peer
C15_Witness ==
    /\ pc = "finish" /\ Handled /\ calls = 1
    /\ path(req.val) = "/convert/10.5"
    /\ out = <<"HTTP/1.1 200 OK\r\n",
               "Content-Type: application/json; charset=utf-8\r\n",
               "Content-Length: 120\r\n",
               "\r\n",
               "{\"timestamp\": 1700000000, \"base_currency\": \"USD\", "
               \o "\"base_amount\": 10.5, \"target_currency\": \"RUB\", "
               \o "\"target_amount\": 945.0}">>

\* the length in bytes of a Response's body, 0 without a body
BodyLength(r) == IF r.body.some THEN Len(r.body.val) ELSE 0

\* the values of a Response's Content-Length headers
ContentLengths(r) ==
    IF r.headers.some
    THEN {r.headers.val[i][2] : i \in {j \in 1..Len(r.headers.val) :
                                         Lower(r.headers.val[j][1]) = "content-length"}}
    ELSE {}

(* C16: every Response handed to send_response (the 200, the 406, the Response
   send_error makes of an HTTPError, the 500 fallback) that has a
   Content-Length header has the length of its body in bytes as the value; a
   Response without a body has no Content-Length but 0. *)
C16_ContentLength ==
    resp.some => \A v \in ContentLengths(resp.val) : v = PyInt(BodyLength(resp.val))

\* the Response send_error made of an HTTPError with a body of its own reached
\* the peer
C16_Witness ==
    /\ pc = "finish" /\ WroteResponse
    /\ resp.val.status = 400
    /\ resp.val.body = Some("Host header is missing")
    /\ ContentLengths(resp.val) = {PyInt(22)}

\* the text of a header value or a reason phrase: a number in decimal, a
\* string as it is
TextOf(x) == IF x.t = "int" THEN ToString(x.v) ELSE x.v

\* the header lines of C17, in the order supplied
RECURSIVE HeaderText(_)
HeaderText(hs) ==
    IF hs = <<>> THEN ""
    ELSE hs[1][1] \o ": " \o TextOf(hs[1][2]) \o "\r\n" \o HeaderText(Tail(hs))

\* what C17 has send_response emit for a Response
ExpectedWire(r) ==
    "HTTP/1.1 " \o ToString(r.status) \o " " \o TextOf(r.reason) \o "\r\n"
    \o (IF r.headers.some THEN HeaderText(r.headers.val) ELSE "")
    \o "\r\n"
    \o (IF r.body.some THEN r.body.val ELSE "")

(* C17: for every Response, send_response emits the status line HTTP/1.1
   <status> <reason> and CRLF, then a line <name>: <value> and CRLF for each
   header in the order supplied (none without headers), then an empty line,
   then the body unchanged if there is one, and nothing else. *)
C17_WriterFormat ==
    (pc = "finish" /\ conn # 0 /\ sent = 1) => Join(out) = ExpectedWire(resp.val)

(* C18: connections are served one at a time: when the accept loop is back at
   accept, the connection it served before is closed, its read stream and its
   socket, so that at most one accepted connection is not closed. *)
C18_OneAtATime ==
    (pc = "accept" /\ nconn > 0) => (sock = "closed" /\ rfile = "closed")

(* C19: get_latest is called at most once for a connection, and only for a
   request that passed every check before it: a request line of at most
   MAX_LINE bytes with three tokens and version HTTP/1.1, a header block
   within the limits, a Host that is the server name with or without the
   port, a path under /convert/ with the method GET, a numeric amount, and an
   Accept header that contains application/json or */*. *)
C19_ProviderGuarded ==
    /\ calls <= 1
    /\ calls = 1 =>
         /\ pc \notin {"parse_request_line", "parse_headers", "parse_request",
                       "handle_request", "handle_get_convert"}
         /\ raw.some /\ Len(raw.val) <= MAX_LINE
         /\ words.some /\ Len(words.val) = 3 /\ words.val[3] = "HTTP/1.1"
         /\ BlockWithinLimits
         /\ HostMatches
         /\ req.some /\ IsConvert(req.val) /\ FloatOk(AmountText(req.val))
         /\ LET accept == Get(req.val.headers, "Accept")
            IN  /\ accept.some
                /\ Contains(accept.val, "application/json") \/ Contains(accept.val, "*/*")

\* the provider was called, for a request with Accept: application/json, and failed
C19_Witness ==
    /\ calls = 1 /\ pc = "finish"
    /\ Get(req.val.headers, "Accept") = Some("application/json")
    /\ exc.some /\ exc.val.type = "OXRStatusError"
    /\ WroteResponse /\ resp.val.status = 500

\* the status lines among the chunks that reached the peer
StatusLinesOut == {i \in 1..Len(out) : StartsWith(out[i], "HTTP/1.1 ")}

(* C20: at most one response is started on a connection: also where the write
   of the response fails part-way with an exception that is no connection
   reset, a status line is written to the connection no more than once. *)
C20_OneResponse == Cardinality(StatusLinesOut) <= 1

=============================================================================
